---- MODULE Spec2Model ----
(***************************************************************************)
(* Contact Management App (FastAPI + SQLAlchemy + Redis).                  *)
(*                                                                         *)
(* The module models the relational store (users, contacts), the Redis     *)
(* snapshot cache, the host clock and the JWT tokens handed to clients,    *)
(* with one action per route handler.                                      *)
(*                                                                         *)
(*   SpecBirthdays  the upcoming-birthdays query over a populated store    *)
(*   Spec           the authentication routes (signup .. refresh_token)    *)
(*   SpecContacts   the contact routes for two logged-in principals        *)
(*   SpecRace       signup, login and refresh_token split at their awaits   *)
(*   SpecSession    one logged-in principal, the clock and a failing Redis  *)
(*   SpecMail       the routes that mail a token and those that take one    *)
(*   SpecOrphan     tokens whose principal has left the store               *)
(*   SpecAccount    every route around one principal's refresh token        *)
(*   SpecStale      writes to a principal behind a cached snapshot          *)
(*   SpecUnique     two principals writing contacts with the same e-mails   *)
(***************************************************************************)
EXTENDS Integers, Sequences, FiniteSets, TLC

VARIABLES
    users,        \* rows of table "users"
    contacts,     \* rows of table "contacts"
    user_seq,     \* last value of the users.id sequence
    contact_seq,  \* last value of the contacts.id sequence
    cache,        \* Redis: key user:<email> -> pickled user row with expiry
    now,          \* host clock, whole seconds (JWT iat/exp granularity)
    ticks,        \* how many times the clock has been advanced (bounded)
    today,        \* host calendar date, date.today()
    issued,       \* tokens handed to clients (responses and e-mails)
    returned,     \* per principal: refresh token of its last 200 login/refresh
    used,         \* refresh tokens that a 200 refresh has already accepted
    inflight,     \* per worker: the request it is in the middle of serving
    redis_fault,  \* the Redis command that raises ConnectionError, if any
    mailed,       \* messages handed to the mail server: template and token
    resp          \* the response of the last request

vars == <<users, contacts, user_seq, contact_seq, cache, now, ticks, today,
          issued, returned, used, inflight, redis_fault, mailed, resp>>

(***************************************************************************)
(* Bounds of the model.                                                    *)
(***************************************************************************)
NumTodayYears == 2
NumBirthYears == 2

TodayYears == 2023..(2022 + NumTodayYears)
BirthYears == 2000..(1999 + NumBirthYears)

(***************************************************************************)
(* datetime.date and timedelta(days=n).                                    *)
(***************************************************************************)
NoDate == [y |-> 0, m |-> 0, d |-> 0]

IsLeap(y) == (y % 4 = 0 /\ y % 100 # 0) \/ y % 400 = 0

DaysInMonth(y, m) ==
    IF m = 2 THEN (IF IsLeap(y) THEN 29 ELSE 28)
    ELSE IF m \in {4, 6, 9, 11} THEN 30 ELSE 31

DatesOf(years) ==
    {dt \in [y : years, m : 1..12, d : 1..31] : dt.d <= DaysInMonth(dt.y, dt.m)}

NextDay(dt) ==
    IF dt.d < DaysInMonth(dt.y, dt.m) THEN [dt EXCEPT !.d = dt.d + 1]
    ELSE IF dt.m < 12 THEN [y |-> dt.y, m |-> dt.m + 1, d |-> 1]
    ELSE [y |-> dt.y + 1, m |-> 1, d |-> 1]

RECURSIVE AddDays(_, _)
AddDays(dt, n) == IF n = 0 THEN dt ELSE AddDays(NextDay(dt), n - 1)

\* 1-based ordinal of a date within its year (SQL extract('doy', ...)).
RECURSIVE DaysBeforeMonth(_, _)
DaysBeforeMonth(y, m) ==
    IF m = 1 THEN 0 ELSE DaysBeforeMonth(y, m - 1) + DaysInMonth(y, m - 1)

DayOfYear(dt) == DaysBeforeMonth(dt.y, dt.m) + dt.d

(***************************************************************************)
(* Rows.                                                                   *)
(***************************************************************************)
NoToken == [sub |-> "", scope |-> "", iat |-> 0, exp |-> 0, sig |-> FALSE]

NoUser == [id |-> 0, email |-> "", password |-> <<"", "">>, avatar |-> "",
           refresh_token |-> NoToken, confirmed |-> FALSE]

UserEmails == {"a@x", "b@x"}

\* contacts.email is modelled by a number; 0 is NULL.
NoEmail == 0

(***************************************************************************)
(* repository/contacts.py: get_upcoming_birthdays                          *)
(***************************************************************************)
InAWeek_six(t) == AddDays(t, 6)

InAWeek(t) == AddDays(t, 7)

\* Mutants of the WHERE clause over (month, day) of Contact.birthday.
BirthdayInRange_strict(b, t, in_a_week) ==
    IF t.m = in_a_week.m
    THEN b.m = t.m /\ b.d >= t.d /\ b.d < in_a_week.d
    ELSE \/ b.m = t.m /\ b.d >= t.d
         \/ b.m = in_a_week.m /\ b.d < in_a_week.d

BirthdayInRange_ordered(b, t, in_a_week) ==
    /\ b.m >= t.m /\ b.m <= in_a_week.m
    /\ (b.m = t.m => b.d >= t.d)
    /\ (b.m = in_a_week.m => b.d <= in_a_week.d)

BirthdayInRange_simple(b, t, in_a_week) ==
    b.m = t.m /\ b.d >= t.d /\ b.d <= in_a_week.d

BirthdayInRange_doy(b, t, in_a_week) ==
    DayOfYear(b) >= DayOfYear(t) /\ DayOfYear(b) <= DayOfYear(t) + 7

\* Mutant: the birthday falls on one of the calendar dates today .. in_a_week.
BirthdayInRange_dates(b, t, in_a_week) ==
    \E i \in 0..7 : LET dt == AddDays(t, i) IN dt.m = b.m /\ dt.d = b.d

\* extract('month'/'day', Contact.birthday) against today and in_a_week.
BirthdayInRange(b, t, in_a_week) ==
    IF t.m = in_a_week.m
    THEN b.m = t.m /\ b.d >= t.d /\ b.d <= in_a_week.d
    ELSE \/ b.m = t.m /\ b.d >= t.d
         \/ b.m = in_a_week.m /\ b.d <= in_a_week.d

\* Mutant: a NULL condition counts as true.
Selected_null(birthday, t, in_a_week) ==
    birthday = NoDate \/ BirthdayInRange(birthday, t, in_a_week)

\* The WHERE clause: extract() of a NULL birthday is NULL, every comparison
\* with it is NULL, and a row is selected only when the condition is true.
Selected(birthday, t, in_a_week) ==
    birthday # NoDate /\ BirthdayInRange(birthday, t, in_a_week)

GetUpcomingBirthdays(db, user, t) ==
    LET in_a_week == InAWeek(t) IN
    {c \in db : /\ c.user_id = user.id
                /\ Selected(c.birthday, t, in_a_week)}

(***************************************************************************)
(* Responses.                                                              *)
(***************************************************************************)
\* A ContactUpdate body with no field set (model_dump(exclude_unset) = {}).
NoBody == [set |-> {}, first_name |-> "", email |-> NoEmail, birthday |-> NoDate]

NoResp == [op |-> "", status |-> 0, detail |-> "", user_id |-> 0,
           contact_id |-> 0, contacts |-> {}, body |-> NoBody, token |-> NoToken,
           access_token |-> NoToken, refresh_token |-> NoToken,
           today |-> NoDate, replay |-> FALSE, email |-> "", password |-> "",
           user |-> NoUser]

(***************************************************************************)
(* Server workers. A request is served by one worker with a database       *)
(* session of its own (get_db); between two statements of a handler the    *)
(* other worker may run. A worker that is not Idle holds what its handler  *)
(* has read so far: the request and the user row loaded into its session.  *)
(***************************************************************************)
Workers == {"w1", "w2"}

Idle == [op |-> "", email |-> "", password |-> "", token |-> NoToken,
         user |-> NoUser, first |-> FALSE]

(***************************************************************************)
(* SpecBirthdays: the query applied to a populated store.                  *)
(***************************************************************************)
UserA == [NoUser EXCEPT !.id = 1, !.email = "a@x",
                        !.password = <<"bcrypt", "pw1">>, !.confirmed = TRUE]
UserB == [NoUser EXCEPT !.id = 2, !.email = "b@x",
                        !.password = <<"bcrypt", "pw1">>, !.confirmed = TRUE]

DateIndex(dt) ==
    (dt.y - 2000) * 366 + DayOfYear(dt)

\* One contact per owner and birth date, plus one without birthday each.
Population ==
    LET n == 366 * NumBirthYears + 1 IN
    {[id |-> (u.id - 1) * n + DateIndex(dt) + 1,
      user_id |-> u.id, first_name |-> "n1",
      email |-> (u.id - 1) * n + DateIndex(dt) + 1,
      birthday |-> dt] : u \in {UserA, UserB}, dt \in DatesOf(BirthYears)}
    \cup
    {[id |-> (u.id - 1) * n + 1, user_id |-> u.id, first_name |-> "n1",
      email |-> (u.id - 1) * n + 1, birthday |-> NoDate] : u \in {UserA, UserB}}

InitBirthdays ==
    /\ users = {UserA, UserB}
    /\ user_seq = 2
    /\ contacts = Population
    /\ contact_seq = 2 * (366 * NumBirthYears + 1)
    /\ cache = [e \in UserEmails |-> [present |-> FALSE, user |-> NoUser, expire_at |-> 0]]
    /\ now = 0
    /\ ticks = 0
    /\ today \in DatesOf(TodayYears)
    /\ issued = {}
    /\ returned = [e \in UserEmails |-> NoToken]
    /\ used = {}
    /\ inflight = [w \in Workers |-> Idle]
    /\ redis_fault = ""
    /\ mailed = {}
    /\ resp = NoResp

QueryBirthdays(user) ==
    /\ resp' = [NoResp EXCEPT !.op = "get_upcoming_birthdays",
                              !.status = 200,
                              !.user_id = user.id,
                              !.today = today,
                              !.contacts = GetUpcomingBirthdays(contacts, user, today)]
    /\ UNCHANGED <<users, contacts, user_seq, contact_seq, cache, now, ticks, today,
                   inflight, redis_fault, mailed,
                   issued, returned, used>>

NextBirthdays == \E user \in users : QueryBirthdays(user)

SpecBirthdays == InitBirthdays /\ [][NextBirthdays]_vars

(***************************************************************************)
(* services/auth.py: password hashing and JWT tokens.                      *)
(***************************************************************************)
MaxTicks == 1
MaxRefreshTokens == 2

\* The model stops minting once MaxRefreshTokens distinct refresh tokens exist.
MayMint(token) ==
    \/ token \in issued
    \/ Cardinality({t \in issued : t.scope = "refresh_token"}) < MaxRefreshTokens

Passwords == {"pw1", "pw2"}

\* bcrypt digest of a password; verify() recomputes and compares.
GetPasswordHash(password) == <<"bcrypt", password>>

VerifyPassword(plain_password, hashed_password) ==
    hashed_password = GetPasswordHash(plain_password)

AccessTokenTTL == 15 * 60
RefreshTokenTTL == 7 * 24 * 60 * 60
EmailTokenTTL == 7 * 24 * 60 * 60
CacheTTL == 900

\* jwt.encode: iat and exp are written as whole seconds.
CreateAccessToken(email, t) ==
    [sub |-> email, scope |-> "access_token", iat |-> t,
     exp |-> t + AccessTokenTTL, sig |-> TRUE]

\* Mutant: every mint after the first accepted refresh request differs.
CreateRefreshToken_nonce(email, t) ==
    [sub |-> email, scope |-> "refresh_token", iat |-> t,
     exp |-> t + RefreshTokenTTL + Cardinality(used), sig |-> TRUE]

CreateRefreshToken(email, t) ==
    [sub |-> email, scope |-> "refresh_token", iat |-> t,
     exp |-> t + RefreshTokenTTL, sig |-> TRUE]

\* create_email_token writes no scope claim.
CreateEmailToken(email, t) ==
    [sub |-> email, scope |-> "", iat |-> t,
     exp |-> t + EmailTokenTTL, sig |-> TRUE]

\* services/email.py: the message of send_email / send_reset_email carries a
\* token minted by create_email_token when the background task runs.
SendEmail(email, t) ==
    [template |-> "email_template.html", token |-> CreateEmailToken(email, t)]

SendResetEmail(email, t) ==
    [template |-> "reset_password_email.html", token |-> CreateEmailToken(email, t)]

\* The model stops mailing once MaxMails distinct messages exist.
MaxMails == 3

MayMail(message) == message \in mailed \/ Cardinality(mailed) < MaxMails

\* A token not signed with SECRET_KEY.
ForgedToken == [sub |-> "a@x", scope |-> "refresh_token", iat |-> 0,
                exp |-> RefreshTokenTTL, sig |-> FALSE]

\* jwt.decode raises JWTError on a bad signature and once exp < now.
\* Mutant: exp is not validated.
JwtValid_noexp(token, t) == token.sig

JwtValid(token, t) == token.sig /\ ~(token.exp < t)

(***************************************************************************)
(* repository/users.py                                                     *)
(***************************************************************************)
GetUserByEmail(email) ==
    IF \E u \in users : u.email = email
    THEN CHOOSE u \in users : u.email = email
    ELSE NoUser

\* Mutant: a None token is not written.
UpdateToken_keep(user, token) ==
    IF token = NoToken THEN users
    ELSE {IF u.id = user.id THEN [u EXCEPT !.refresh_token = token] ELSE u : u \in users}

\* user.refresh_token = token; db.commit(): the session writes the changed
\* column of the row with the primary key of the loaded object.
UpdateToken(user, token) ==
    {IF u.id = user.id THEN [u EXCEPT !.refresh_token = token] ELSE u : u \in users}

\* Mutant: no unique index on users.email.
UserEmailTaken_unchecked(email) == FALSE

\* unique=True on users.email: the INSERT of a second row with the e-mail
\* raises IntegrityError at db.commit().
UserEmailTaken(email) == \E u \in users : u.email = email

\* User(**body.model_dump(), avatar=avatar); confirmed defaults to False.
CreateUser(email, hashed, id) ==
    users \cup {[NoUser EXCEPT !.id = id, !.email = email, !.password = hashed,
                               !.avatar = "gravatar"]}

ConfirmEmailRow(email) ==
    {IF u.email = email THEN [u EXCEPT !.confirmed = TRUE] ELSE u : u \in users}

(***************************************************************************)
(* services/auth.py: decode_refresh_token and get_current_user.            *)
(* A result is [status, detail, email] / [status, user, cache].            *)
(***************************************************************************)
DecodeRefreshToken(token, t) ==
    IF ~JwtValid(token, t)
    THEN [status |-> 401, detail |-> "Could not validate credentials", email |-> ""]
    ELSE IF token.scope = ""
    THEN [status |-> 500, detail |-> "KeyError: 'scope'", email |-> ""]
    ELSE IF token.scope = "refresh_token"
    THEN [status |-> 200, detail |-> "", email |-> token.sub]
    ELSE [status |-> 401, detail |-> "Invalid scope for token", email |-> ""]

NoEntry == [present |-> FALSE, user |-> NoUser, expire_at |-> 0]

\* expire_at of a key that set() wrote and expire() never reached.
NoExpiry == 0 - 1

\* The Redis commands of get_current_user; redis_fault names the one that
\* raises (redis.exceptions.ConnectionError), "" when the server is healthy.
RedisCommands == {"get", "set", "expire"}

Expired(entry, t) == entry.expire_at # NoExpiry /\ entry.expire_at <= t

\* Mutant: the cache is never consulted.
CacheGet_miss(email) == NoEntry

\* Mutant: a snapshot that differs from the stored row counts as a miss.
CacheGet_coherent(email) ==
    IF cache[email].present /\ ~Expired(cache[email], now)
       /\ cache[email].user \in users
    THEN cache[email] ELSE NoEntry

\* self.r.get(f"user:{email}")
CacheGet(email) == IF cache[email].present /\ ~Expired(cache[email], now)
                   THEN cache[email] ELSE NoEntry

\* The scope test of get_current_user.
AccessScopeOk_any(token) == TRUE

\* Mutant: an access token counts only while the refresh token issued with
\* it is the stored one.
AccessScopeOk_paired(token) ==
    /\ token.scope = "access_token"
    /\ \E u \in users : u.email = token.sub /\ u.refresh_token.sig
                        /\ u.refresh_token.iat = token.iat

AccessScopeOk(token) == token.scope = "access_token"

\* No call of self.r is guarded: an exception of the Redis client leaves the
\* dependency and the request ends with 500.
GetCurrentUser(token) ==
    IF ~JwtValid(token, now)
    THEN [status |-> 401, user |-> NoUser, cache |-> cache]
    ELSE IF token.scope = ""
    THEN [status |-> 500, user |-> NoUser, cache |-> cache]
    ELSE IF ~AccessScopeOk(token)
    THEN [status |-> 401, user |-> NoUser, cache |-> cache]
    ELSE IF redis_fault = "get"
    THEN [status |-> 500, user |-> NoUser, cache |-> cache]
    ELSE LET email == token.sub
             hit == CacheGet(email)
             user == GetUserByEmail(email)
             entry(expire_at) == [present |-> TRUE, user |-> user,
                                  expire_at |-> expire_at]
         IN  IF hit.present
             THEN [status |-> 200, user |-> hit.user, cache |-> cache]
             ELSE IF user = NoUser
             THEN [status |-> 401, user |-> NoUser, cache |-> cache]
             ELSE IF redis_fault = "set"
             THEN [status |-> 500, user |-> NoUser, cache |-> cache]
             ELSE IF redis_fault = "expire"
             THEN [status |-> 500, user |-> NoUser,
                   cache |-> [cache EXCEPT ![email] = entry(NoExpiry)]]
             ELSE [status |-> 200, user |-> user,
                   cache |-> [cache EXCEPT ![email] = entry(now + CacheTTL)]]

(***************************************************************************)
(* routes/auth.py and routes/users.py                                      *)
(***************************************************************************)
Presentable == issued \cup {ForgedToken}

\* Mutant: only the owner of the token is compared.
TokenMatches_sub(user, token) == token.sub = user.email

\* user.refresh_token != token, negated
TokenMatches(user, token) == user.refresh_token = token

\* Mutant: the conflict test never fires.
AccountExists_never(exist_user) == FALSE

\* if exist_user
AccountExists(exist_user) == exist_user # NoUser

Signup(email, password) ==
    LET exist_user == GetUserByEmail(email) IN
    /\ IF AccountExists(exist_user)
       THEN /\ resp' = [NoResp EXCEPT !.op = "signup", !.status = 409,
                                      !.email = email, !.password = password,
                                      !.detail = "Account already exists"]
            /\ UNCHANGED <<users, user_seq, issued, mailed>>
       ELSE /\ users' = CreateUser(email, GetPasswordHash(password), user_seq + 1)
            /\ user_seq' = user_seq + 1
            /\ issued' = issued \cup {CreateEmailToken(email, now)}
            /\ mailed' = mailed \cup {SendEmail(email, now)}
            /\ resp' = [NoResp EXCEPT !.op = "signup", !.status = 201,
                                      !.email = email, !.password = password,
                                      !.user_id = user_seq + 1]
    /\ UNCHANGED <<contacts, contact_seq, cache, now, ticks, today, inflight,
                   redis_fault, returned, used>>

\* Mutant: the confirmed flag is not looked at.
IsConfirmed_any(user) == TRUE

\* if not user.confirmed
IsConfirmed(user) == user.confirmed

Login(email, password) ==
    LET user == GetUserByEmail(email)
        access_token == CreateAccessToken(email, now)
        refresh_token == CreateRefreshToken(email, now)
        fail(detail) == [NoResp EXCEPT !.op = "login", !.email = email,
                                       !.password = password,
                                       !.status = 401, !.detail = detail]
    IN
    /\ IF user = NoUser
       THEN resp' = fail("Invalid email") /\ UNCHANGED <<users, issued, returned, used>>
       ELSE IF ~IsConfirmed(user)
       THEN resp' = fail("Email not confirmed") /\ UNCHANGED <<users, issued, returned, used>>
       ELSE IF ~VerifyPassword(password, user.password)
       THEN resp' = fail("Invalid password") /\ UNCHANGED <<users, issued, returned, used>>
       ELSE /\ MayMint(refresh_token)
            /\ users' = UpdateToken(user, refresh_token)
            /\ issued' = issued \cup {access_token, refresh_token}
            /\ returned' = [returned EXCEPT ![email] = refresh_token]
            /\ resp' = [NoResp EXCEPT !.op = "login", !.status = 200,
                                      !.email = email, !.password = password,
                                      !.user_id = user.id,
                                      !.access_token = access_token,
                                      !.refresh_token = refresh_token]
    /\ UNCHANGED <<contacts, user_seq, contact_seq, cache, now, ticks, today, inflight,
                   redis_fault, mailed, used>>

RefreshToken(token) ==
    LET dec == DecodeRefreshToken(token, now)
        email == dec.email
        user == GetUserByEmail(email)
        access_token == CreateAccessToken(email, now)
        refresh_token == CreateRefreshToken(email, now)
        fail(status, detail) == [NoResp EXCEPT !.op = "refresh_token", !.token = token,
                                               !.replay = token \in used,
                                               !.status = status, !.detail = detail]
    IN
    /\ IF dec.status # 200
       THEN resp' = fail(dec.status, dec.detail) /\ UNCHANGED <<users, issued, returned, used>>
       ELSE IF user = NoUser
       THEN /\ resp' = fail(500, "AttributeError: 'NoneType' object has no attribute 'refresh_token'")
            /\ UNCHANGED <<users, issued, returned, used>>
       ELSE IF ~TokenMatches(user, token)
       THEN /\ users' = UpdateToken(user, NoToken)
            /\ resp' = [fail(401, "Invalid refresh token") EXCEPT !.user_id = user.id]
            /\ UNCHANGED <<issued, returned, used>>
       ELSE /\ MayMint(refresh_token)
            /\ users' = UpdateToken(user, refresh_token)
            /\ issued' = issued \cup {access_token, refresh_token}
            /\ returned' = [returned EXCEPT ![email] = refresh_token]
            /\ used' = used \cup {token}
            /\ resp' = [NoResp EXCEPT !.op = "refresh_token", !.token = token,
                                      !.replay = token \in used,
                                      !.status = 200, !.user_id = user.id,
                                      !.access_token = access_token,
                                      !.refresh_token = refresh_token]
    /\ UNCHANGED <<contacts, user_seq, contact_seq, cache, now, ticks, today, inflight,
                   redis_fault, mailed>>

\* Mutant: only a token without a scope claim passes.
EmailTokenOk_scopeless(token, t) == JwtValid(token, t) /\ token.scope = ""

\* get_email_from_token: jwt.decode and payload["sub"]; any signed, unexpired
\* token with a sub is accepted, whatever its scope.
EmailTokenOk(token, t) == JwtValid(token, t)

ConfirmEmail(token) ==
    LET email == token.sub
        user == GetUserByEmail(email)
        out(status, detail) == [NoResp EXCEPT !.op = "confirm_email", !.user_id = user.id,
                                              !.token = token,
                                              !.status = status, !.detail = detail]
    IN
    /\ IF ~EmailTokenOk(token, now)
       THEN resp' = out(422, "Invalid token for email verification") /\ UNCHANGED users
       ELSE IF user = NoUser
       THEN resp' = out(400, "Verification error") /\ UNCHANGED users
       ELSE IF user.confirmed
       THEN resp' = out(200, "Your email is already confirmed") /\ UNCHANGED users
       ELSE users' = ConfirmEmailRow(email) /\ resp' = out(200, "Email confirmed")
    /\ UNCHANGED <<contacts, user_seq, contact_seq, cache, now, ticks, today, inflight,
                   redis_fault, mailed, issued, returned, used>>

\* The response when the get_current_user dependency raises.
Unauthorized(op, token, auth) ==
    [NoResp EXCEPT !.op = op, !.token = token, !.status = auth.status,
                   !.detail = IF auth.status = 401
                              THEN "Could not validate credentials"
                              ELSE "Internal Server Error"]

\* POST /request_email: a new confirmation message for an unconfirmed user.
RequestEmail(email) ==
    LET user == GetUserByEmail(email)
        out(status, detail) == [NoResp EXCEPT !.op = "request_email", !.email = email,
                                              !.user_id = user.id,
                                              !.status = status, !.detail = detail]
    IN
    /\ IF user = NoUser
       THEN /\ resp' = out(404, "No account found with this email address.")
            /\ UNCHANGED <<issued, mailed>>
       ELSE IF user.confirmed
       THEN /\ resp' = out(200, "Your email is already confirmed")
            /\ UNCHANGED <<issued, mailed>>
       ELSE /\ MayMail(SendEmail(email, now))
            /\ issued' = issued \cup {CreateEmailToken(email, now)}
            /\ mailed' = mailed \cup {SendEmail(email, now)}
            /\ resp' = out(200, "Check your email for confirmation.")
    /\ UNCHANGED <<users, contacts, user_seq, contact_seq, cache, now, ticks, today,
                   inflight, redis_fault, returned, used>>

\* POST /password-reset/: a reset message for any existing user.
PasswordResetRequest(email) ==
    LET user == GetUserByEmail(email)
        out(status, detail) == [NoResp EXCEPT !.op = "password_reset_request",
                                              !.email = email, !.user_id = user.id,
                                              !.status = status, !.detail = detail]
    IN
    /\ IF user = NoUser
       THEN /\ resp' = out(404, "User with this email does not exist.")
            /\ UNCHANGED <<issued, mailed>>
       ELSE /\ MayMail(SendResetEmail(email, now))
            /\ issued' = issued \cup {CreateEmailToken(email, now)}
            /\ mailed' = mailed \cup {SendResetEmail(email, now)}
            /\ resp' = out(200, "If your email is registered, we've sent a link to reset your password.")
    /\ UNCHANGED <<users, contacts, user_seq, contact_seq, cache, now, ticks, today,
                   inflight, redis_fault, returned, used>>

\* Mutant: a password reset also revokes the stored refresh token.
SetPassword_revoke(user, hashed_password) ==
    {IF u.id = user.id
     THEN [u EXCEPT !.password = hashed_password, !.refresh_token = NoToken]
     ELSE u : u \in users}

\* user.password = hashed_password; db.commit()
SetPassword(user, hashed_password) ==
    {IF u.id = user.id THEN [u EXCEPT !.password = hashed_password] ELSE u : u \in users}

\* POST /password-reset/confirm/
ResetPassword(token, new_password) ==
    LET email == token.sub
        user == GetUserByEmail(email)
        out(status, detail) == [NoResp EXCEPT !.op = "reset_password", !.user_id = user.id,
                                              !.token = token, !.password = new_password,
                                              !.status = status, !.detail = detail]
    IN
    /\ IF ~EmailTokenOk(token, now)
       THEN resp' = out(422, "Invalid token for email verification") /\ UNCHANGED users
       ELSE IF user = NoUser
       THEN resp' = out(404, "User not found.") /\ UNCHANGED users
       ELSE /\ users' = SetPassword(user, GetPasswordHash(new_password))
            /\ resp' = out(200, "Your password has been reset successfully.")
    /\ UNCHANGED <<contacts, user_seq, contact_seq, cache, now, ticks, today, inflight,
                   redis_fault, mailed, issued, returned, used>>

\* The URL that Cloudinary builds for an uploaded image.
AvatarUrls == {"ContactsApp/v1"}

\* repository update_avatar: user.avatar = url; db.commit()
UpdateAvatar(email, url) ==
    {IF u.email = email THEN [u EXCEPT !.avatar = url] ELSE u : u \in users}

\* PATCH /users/avatar: the row is found by current_user.email; a failed
\* upload or a missing row ends with 500.
UpdateAvatarUser(token, url, uploaded) ==
    LET auth == GetCurrentUser(token)
        current_user == auth.user
        out(status, detail, user) ==
            [NoResp EXCEPT !.op = "update_avatar_user", !.token = token,
                           !.status = status, !.detail = detail,
                           !.user_id = current_user.id, !.user = user]
    IN
    /\ cache' = auth.cache
    /\ IF auth.status # 200
       THEN resp' = Unauthorized("update_avatar_user", token, auth) /\ UNCHANGED users
       ELSE IF ~uploaded \/ GetUserByEmail(current_user.email) = NoUser
       THEN resp' = out(500, "Failed to update avatar", NoUser) /\ UNCHANGED users
       ELSE /\ users' = UpdateAvatar(current_user.email, url)
            /\ resp' = out(200, "", [GetUserByEmail(current_user.email)
                                        EXCEPT !.avatar = url])
    /\ UNCHANGED <<contacts, user_seq, contact_seq, now, ticks, today, inflight,
                   redis_fault, mailed, issued, returned, used>>

\* GET /users/me: the handler returns what get_current_user resolved.
ReadUsersMe(token) ==
    LET auth == GetCurrentUser(token) IN
    /\ cache' = auth.cache
    /\ resp' = [NoResp EXCEPT !.op = "read_users_me", !.token = token,
                              !.user = auth.user,
                              !.status = auth.status, !.user_id = auth.user.id,
                              !.detail = IF auth.status = 401
                                         THEN "Could not validate credentials" ELSE ""]
    /\ UNCHANGED <<users, contacts, user_seq, contact_seq, now, ticks, today, inflight,
                   redis_fault, mailed, issued, returned, used>>

\* The host clock advances, by a second or past the life of every token
\* minted so far; Redis drops the keys whose expiry has passed.
TickSteps == {1, RefreshTokenTTL + 1}

Tick(d) ==
    /\ ticks < MaxTicks
    /\ ticks' = ticks + 1
    /\ now' = now + d
    /\ cache' = [e \in UserEmails |->
                    IF cache[e].present /\ Expired(cache[e], now + d)
                    THEN NoEntry ELSE cache[e]]
    /\ UNCHANGED <<users, contacts, user_seq, contact_seq, today, inflight, redis_fault, mailed,
                   issued, returned, used, resp>>

Init ==
    /\ users = {}
    /\ contacts = {}
    /\ user_seq = 0
    /\ contact_seq = 0
    /\ cache = [e \in UserEmails |-> NoEntry]
    /\ now = 0
    /\ ticks = 0
    /\ today = [y |-> 2024, m |-> 5, d |-> 28]
    /\ issued = {}
    /\ returned = [e \in UserEmails |-> NoToken]
    /\ used = {}
    /\ inflight = [w \in Workers |-> Idle]
    /\ redis_fault = ""
    /\ mailed = {}
    /\ resp = NoResp

Next ==
    \/ \E e \in UserEmails : Signup(e, "pw1")
    \/ \E e \in UserEmails, p \in Passwords : Login(e, p)
    \/ \E t \in Presentable : RefreshToken(t)
    \/ \E t \in {mail.token : mail \in mailed} \cup {ForgedToken} : ConfirmEmail(t)
    \/ \E d \in TickSteps : Tick(d)

Spec == Init /\ [][Next]_vars

(***************************************************************************)
(* repository/contacts.py                                                  *)
(***************************************************************************)
MaxContacts == 2

Names == {"n1", "n2"}
ContactEmails == {1, 2}
Birthdays == {[y |-> 1990, m |-> 5, d |-> 30]}

NoContact == [id |-> 0, user_id |-> 0, first_name |-> "", email |-> NoEmail,
              birthday |-> NoDate]

\* Rows in the order the query yields them (by id), as a sequence.
RECURSIVE ById(_)
ById(rows) ==
    IF rows = {} THEN <<>>
    ELSE LET first == CHOOSE c \in rows : \A o \in rows : c.id <= o.id
         IN  <<first>> \o ById(rows \ {first})

\* .offset(skip).limit(limit)
OffsetLimit(seq, skip, limit) ==
    {seq[i] : i \in {j \in 1..Len(seq) : j > skip /\ j <= skip + limit}}

\* ILIKE '%search%' over the columns the query names.
SearchFilter(c, search) == c.first_name = search

\* Mutant: the owner filter left out of a query.
OwnedBy_anyone(c, user) == TRUE

\* Contact.user_id == user.id
OwnedBy(c, user) == c.user_id = user.id

GetContacts(skip, limit, user, search) ==
    LET query == {c \in contacts : OwnedBy(c, user)}
        found == IF search # "" THEN {c \in query : SearchFilter(c, search)} ELSE query
    IN  OffsetLimit(ById(found), skip, limit)

\* .filter(and_(Contact.id == contact_id, Contact.user_id == user.id)).first()
GetContact(contact_id, user) ==
    LET found == {c \in contacts : c.id = contact_id /\ OwnedBy(c, user)}
    IN  IF found = {} THEN NoContact ELSE CHOOSE c \in found : TRUE

\* Mutant: the index is checked when a row is updated, not when one is
\* inserted.
EmailTaken_update(email, except_id) ==
    /\ except_id # 0
    /\ email # NoEmail
    /\ \E c \in contacts : c.id # except_id /\ c.email = email

\* The unique index on contacts.email (NULLs never collide).
EmailTaken(email, except_id) ==
    email # NoEmail /\ \E c \in contacts : c.id # except_id /\ c.email = email

\* A ContactUpdate body: the fields that were set, and their values.
UpdateFields == {"first_name", "email", "birthday"}

ApplyUpdate(contact, body) ==
    [contact EXCEPT
        !.first_name = IF "first_name" \in body.set THEN body.first_name ELSE @,
        !.email = IF "email" \in body.set THEN body.email ELSE @,
        !.birthday = IF "birthday" \in body.set THEN body.birthday ELSE @]

(***************************************************************************)
(* routes/contacts.py: every handler depends on get_current_user.          *)
(***************************************************************************)
ReadContacts(token, skip, limit, search) ==
    LET auth == GetCurrentUser(token) IN
    /\ cache' = auth.cache
    /\ resp' = IF auth.status # 200 THEN Unauthorized("read_contacts", token, auth)
               ELSE [NoResp EXCEPT !.op = "read_contacts", !.token = token,
                                   !.status = 200, !.user_id = auth.user.id,
                                   !.contacts = GetContacts(skip, limit, auth.user, search)]
    /\ UNCHANGED <<users, contacts, user_seq, contact_seq, now, ticks, today, inflight, redis_fault, mailed,
                   issued, returned, used>>

ReadContact(token, contact_id) ==
    LET auth == GetCurrentUser(token)
        contact == GetContact(contact_id, auth.user)
    IN
    /\ cache' = auth.cache
    /\ resp' = IF auth.status # 200 THEN Unauthorized("read_contact", token, auth)
               ELSE IF contact = NoContact
               THEN [NoResp EXCEPT !.op = "read_contact", !.token = token,
                                   !.status = 404, !.detail = "Contact not found",
                                   !.user_id = auth.user.id, !.contact_id = contact_id]
               ELSE [NoResp EXCEPT !.op = "read_contact", !.token = token,
                                   !.status = 200, !.user_id = auth.user.id,
                                   !.contact_id = contact_id, !.contacts = {contact}]
    /\ UNCHANGED <<users, contacts, user_seq, contact_seq, now, ticks, today, inflight, redis_fault, mailed,
                   issued, returned, used>>

\* db.add; db.commit raises IntegrityError on a duplicate email: rollback, 400.
CreateContact(token, first_name, email, birthday) ==
    LET auth == GetCurrentUser(token)
        contact == [id |-> contact_seq + 1, user_id |-> auth.user.id,
                    first_name |-> first_name, email |-> email, birthday |-> birthday]
    IN
    /\ cache' = auth.cache
    /\ IF auth.status # 200
       THEN /\ resp' = Unauthorized("create_contact", token, auth)
            /\ UNCHANGED <<contacts, contact_seq>>
       ELSE IF EmailTaken(email, 0)
       THEN /\ resp' = [NoResp EXCEPT !.op = "create_contact", !.token = token,
                                      !.status = 400, !.user_id = auth.user.id,
                                      !.detail = "Failed to create contact"]
            /\ UNCHANGED <<contacts, contact_seq>>
       ELSE /\ contact_seq < MaxContacts
            /\ contacts' = contacts \cup {contact}
            /\ contact_seq' = contact_seq + 1
            /\ resp' = [NoResp EXCEPT !.op = "create_contact", !.token = token,
                                      !.status = 201, !.user_id = auth.user.id,
                                      !.contact_id = contact.id, !.contacts = {contact}]
    /\ UNCHANGED <<users, user_seq, now, ticks, today, inflight, redis_fault, mailed, issued,
                   returned, used>>

\* setattr for each set field; db.commit. A duplicate email makes the commit
\* raise, the handler ends with 500 and the session is closed uncommitted.
UpdateContact(token, contact_id, body) ==
    LET auth == GetCurrentUser(token)
        contact == GetContact(contact_id, auth.user)
        updated == ApplyUpdate(contact, body)
        out(status, detail, rows) ==
            [NoResp EXCEPT !.op = "update_contact", !.token = token, !.status = status,
                           !.detail = detail, !.user_id = auth.user.id,
                           !.contact_id = contact_id, !.contacts = rows,
                           !.body = IF status = 404 THEN NoBody ELSE body]
    IN
    /\ cache' = auth.cache
    /\ IF auth.status # 200
       THEN resp' = Unauthorized("update_contact", token, auth) /\ UNCHANGED contacts
       ELSE IF contact = NoContact
       THEN resp' = out(404, "Contact not found", {}) /\ UNCHANGED contacts
       ELSE IF EmailTaken(updated.email, contact.id)
       THEN resp' = out(500, "IntegrityError", {}) /\ UNCHANGED contacts
       ELSE /\ contacts' = (contacts \ {contact}) \cup {updated}
            /\ resp' = out(200, "", {updated})
    /\ UNCHANGED <<users, user_seq, contact_seq, now, ticks, today, inflight,
                   redis_fault, mailed, issued, returned, used>>

\* Mutant: the DELETE is keyed by the owner instead of the row.
DeleteRow_owner(contact) == {c \in contacts : c.user_id # contact.user_id}

\* db.delete(contact); db.commit()
DeleteRow(contact) == contacts \ {contact}

RemoveContact(token, contact_id) ==
    LET auth == GetCurrentUser(token)
        contact == GetContact(contact_id, auth.user)
        out(status, detail, rows) ==
            [NoResp EXCEPT !.op = "remove_contact", !.token = token, !.status = status,
                           !.detail = detail, !.user_id = auth.user.id,
                           !.contact_id = contact_id, !.contacts = rows]
    IN
    /\ cache' = auth.cache
    /\ IF auth.status # 200
       THEN resp' = Unauthorized("remove_contact", token, auth) /\ UNCHANGED contacts
       ELSE IF contact = NoContact
       THEN resp' = out(404, "Contact not found", {}) /\ UNCHANGED contacts
       ELSE contacts' = DeleteRow(contact) /\ resp' = out(200, "", {contact})
    /\ UNCHANGED <<users, user_seq, contact_seq, now, ticks, today, inflight,
                   redis_fault, mailed, issued, returned, used>>

UpcomingBirthdays(token) ==
    LET auth == GetCurrentUser(token) IN
    /\ cache' = auth.cache
    /\ resp' = IF auth.status # 200
               THEN Unauthorized("get_upcoming_birthdays", token, auth)
               ELSE [NoResp EXCEPT !.op = "get_upcoming_birthdays", !.token = token,
                                   !.status = 200, !.user_id = auth.user.id,
                                   !.today = today,
                                   !.contacts = GetUpcomingBirthdays(contacts, auth.user, today)]
    /\ UNCHANGED <<users, contacts, user_seq, contact_seq, now, ticks, today, inflight, redis_fault, mailed,
                   issued, returned, used>>

(***************************************************************************)
(* SpecContacts: two confirmed principals that have logged in at time 0.   *)
(***************************************************************************)
LoggedIn(user) == [user EXCEPT !.avatar = "gravatar",
                               !.refresh_token = CreateRefreshToken(user.email, 0)]

InitContacts ==
    /\ users = {LoggedIn(UserA), LoggedIn(UserB)}
    /\ contacts = {}
    /\ user_seq = 2
    /\ contact_seq = 0
    /\ cache = [e \in UserEmails |-> NoEntry]
    /\ now = 0
    /\ ticks = 0
    /\ today = [y |-> 2024, m |-> 5, d |-> 28]
    /\ issued = UNION {{CreateEmailToken(e, 0), CreateAccessToken(e, 0),
                        CreateRefreshToken(e, 0)} : e \in UserEmails}
    /\ returned = [e \in UserEmails |-> CreateRefreshToken(e, 0)]
    /\ used = {}
    /\ inflight = [w \in Workers |-> Idle]
    /\ redis_fault = ""
    /\ mailed = {SendEmail(e, 0) : e \in UserEmails}
    /\ resp = NoResp

\* The credentials of the requests: each principal's access token, and a's
\* refresh token, which get_current_user rejects and /refresh_token accepts.
Callers == {t \in issued : t.scope = "access_token"}
           \cup {t \in issued : t.scope = "refresh_token" /\ t.sub = "a@x"}

Pages == {[skip |-> 0, limit |-> 100, search |-> ""],
          [skip |-> 1, limit |-> 1, search |-> ""],
          [skip |-> 0, limit |-> 100, search |-> "n2"]}

UpdateBodies ==
    {NoBody}
    \cup {[set |-> {"first_name"}, first_name |-> n, email |-> NoEmail,
           birthday |-> NoDate] : n \in Names}
    \cup {[set |-> {"email"}, first_name |-> "", email |-> e,
           birthday |-> NoDate] : e \in ContactEmails}

NextContacts ==
    \/ \E t \in Callers, p \in Pages : ReadContacts(t, p.skip, p.limit, p.search)
    \/ \E t \in Callers, id \in 1..MaxContacts : ReadContact(t, id)
    \/ \E t \in Callers, e \in ContactEmails, b \in Birthdays :
           CreateContact(t, "n1", e, b)
    \/ \E t \in Callers, id \in 1..MaxContacts, body \in UpdateBodies :
           UpdateContact(t, id, body)
    \/ \E t \in Callers, id \in 1..MaxContacts : RemoveContact(t, id)
    \/ \E t \in Callers : UpcomingBirthdays(t)
    \/ \E t \in Callers : ReadUsersMe(t)
    \/ \E t \in Callers : RefreshToken(t)

SpecContacts == InitContacts /\ [][NextContacts]_vars

(***************************************************************************)
(* SpecUnique: two principals that write contacts with the same e-mails.   *)
(***************************************************************************)
Owners == {t \in issued : t.scope = "access_token"}

EmailBodies == {body \in UpdateBodies : body.set = {"email"}}

NextUnique ==
    \/ \E t \in Owners, e \in ContactEmails, b \in Birthdays :
           CreateContact(t, "n1", e, b)
    \/ \E t \in Owners, id \in 1..MaxContacts, body \in EmailBodies :
           UpdateContact(t, id, body)
    \/ \E t \in Owners, id \in 1..MaxContacts : RemoveContact(t, id)

SpecUnique == InitContacts /\ [][NextUnique]_vars

(***************************************************************************)
(* SpecSession: one principal that has logged in at time 0, the host clock *)
(* moving to the expiry of its tokens, and a Redis server that may fail.   *)
(***************************************************************************)
\* The environment: from now on the named Redis command raises ("" heals).
RedisFault(command) ==
    /\ command # redis_fault
    /\ redis_fault' = command
    /\ UNCHANGED <<users, contacts, user_seq, contact_seq, cache, now, ticks, today,
                   inflight, issued, returned, used, mailed, resp>>

InitSession ==
    /\ used = {}
    /\ users = {LoggedIn(UserA)}
    /\ contacts = {}
    /\ user_seq = 1
    /\ contact_seq = 0
    /\ cache = [e \in UserEmails |-> NoEntry]
    /\ now = 0
    /\ ticks = 0
    /\ today = [y |-> 2024, m |-> 5, d |-> 28]
    /\ issued = {CreateEmailToken("a@x", 0), CreateAccessToken("a@x", 0),
                 CreateRefreshToken("a@x", 0)}
    /\ returned = [e \in UserEmails |->
                      IF e = "a@x" THEN CreateRefreshToken(e, 0) ELSE NoToken]
    /\ inflight = [w \in Workers |-> Idle]
    /\ redis_fault = ""
    /\ mailed = {SendEmail("a@x", 0)}
    /\ resp = NoResp

\* Clock steps to the last second of a token's life and to the one after it.
ExpirySteps == {1, AccessTokenTTL, AccessTokenTTL + 1,
                RefreshTokenTTL, RefreshTokenTTL + 1}

NextSession ==
    \/ \E t \in Presentable : ReadUsersMe(t)
    \/ \E t \in Presentable : RefreshToken(t)
    \/ \E d \in ExpirySteps : Tick(d)
    \/ \E command \in RedisCommands \cup {""} : RedisFault(command)

SpecSession == InitSession /\ [][NextSession]_vars

(***************************************************************************)
(* SpecMail: the routes that mail a token and the routes that take one     *)
(* back, for one confirmed principal and one that signs up.                *)
(***************************************************************************)
MailSteps == {1, EmailTokenTTL + 1}

NextMail ==
    \/ \E e \in UserEmails : Signup(e, "pw1")
    \/ \E e \in UserEmails : RequestEmail(e)
    \/ \E e \in UserEmails : PasswordResetRequest(e)
    \/ \E t \in Presentable : ConfirmEmail(t)
    \/ \E t \in Presentable : ResetPassword(t, "pw2")
    \/ \E d \in MailSteps : Tick(d)

SpecMail == InitSession /\ [][NextMail]_vars

(***************************************************************************)
(* SpecOrphan: tokens and cache entries that outlive their principal. The  *)
(* application has no route that deletes a user; the row is deleted in the *)
(* database, where contacts.user_id is declared ON DELETE CASCADE.         *)
(***************************************************************************)
DropUser(email) ==
    LET user == GetUserByEmail(email) IN
    /\ user # NoUser
    /\ users' = users \ {user}
    /\ contacts' = {c \in contacts : c.user_id # user.id}
    /\ UNCHANGED <<user_seq, contact_seq, cache, now, ticks, today, inflight,
                   redis_fault, mailed, issued, returned, used, resp>>

OrphanSteps == {1, CacheTTL}

NextOrphan ==
    \/ \E t \in Presentable : ReadUsersMe(t)
    \/ \E t \in Presentable : RefreshToken(t)
    \/ \E e \in UserEmails : DropUser(e)
    \/ \E d \in OrphanSteps : Tick(d)

SpecOrphan == InitSession /\ [][NextOrphan]_vars

(***************************************************************************)
(* SpecAccount: every route that writes a user row or reads one through    *)
(* get_current_user, next to the contact routes, for one principal that    *)
(* has logged in and one that may sign up.                                 *)
(***************************************************************************)
Scoped(scope) == {t \in issued : t.scope = scope}

\* a@x logged in a second ago and has called a route that depends on
\* get_current_user, which cached its row.
InitAccount ==
    /\ users = {LoggedIn(UserA)}
    /\ contacts = {}
    /\ user_seq = 1
    /\ contact_seq = 0
    /\ cache = [e \in UserEmails |->
                   IF e = "a@x"
                   THEN [present |-> TRUE, user |-> LoggedIn(UserA),
                         expire_at |-> CacheTTL]
                   ELSE NoEntry]
    /\ now = 1
    /\ ticks = 0
    /\ today = [y |-> 2024, m |-> 5, d |-> 28]
    /\ issued = {CreateEmailToken("a@x", 0), CreateAccessToken("a@x", 0),
                 CreateRefreshToken("a@x", 0)}
    /\ returned = [e \in UserEmails |->
                      IF e = "a@x" THEN CreateRefreshToken(e, 0) ELSE NoToken]
    /\ used = {}
    /\ inflight = [w \in Workers |-> Idle]
    /\ redis_fault = ""
    /\ mailed = {SendEmail("a@x", 0)}
    /\ resp = NoResp

FirstAccess == {CreateAccessToken("a@x", 0)}

NextAccount ==
    \/ \E e \in {"b@x"} : Signup(e, "pw1")
    \/ \E e \in {"a@x"}, p \in Passwords : Login(e, p)
    \/ \E t \in Scoped("refresh_token") : RefreshToken(t)
    \/ \E t \in Scoped("") : ConfirmEmail(t)
    \/ \E e \in {"b@x"} : RequestEmail(e)
    \/ \E e \in {"a@x"} : PasswordResetRequest(e)
    \/ \E t \in Scoped("") : ResetPassword(t, "pw2")
    \/ \E t \in FirstAccess, url \in AvatarUrls : UpdateAvatarUser(t, url, TRUE)
    \/ \E t \in FirstAccess : ReadUsersMe(t)
    \/ \E t \in FirstAccess, b \in Birthdays : CreateContact(t, "n1", 1, b)
    \/ \E t \in FirstAccess : UpdateContact(t, 1, NoBody)
    \/ \E t \in FirstAccess : RemoveContact(t, 1)
    \/ \E t \in FirstAccess : ReadContact(t, 1)
    \/ \E t \in FirstAccess : ReadContacts(t, 0, 100, "")
    \/ \E t \in FirstAccess : UpcomingBirthdays(t)

SpecAccount == InitAccount /\ [][NextAccount]_vars

(***************************************************************************)
(* SpecStale: the routes that write a user row next to the reads through   *)
(* get_current_user, with the clock reaching the expiry of a cache entry.  *)
(***************************************************************************)
StaleSteps == {1, CacheTTL}

NextStale ==
    \/ \E t \in Scoped("access_token") : ReadUsersMe(t)
    \/ \E t \in Scoped("access_token"), url \in AvatarUrls, uploaded \in BOOLEAN :
           UpdateAvatarUser(t, url, uploaded)
    \/ \E t \in Scoped("") : ConfirmEmail(t)
    \/ \E t \in Scoped("") : ResetPassword(t, "pw2")
    \/ \E e \in UserEmails, p \in Passwords : Login(e, p)
    \/ \E t \in Scoped("refresh_token") : RefreshToken(t)
    \/ \E d \in StaleSteps : Tick(d)

SpecStale == InitSession /\ [][NextStale]_vars

(***************************************************************************)
(* SpecRace: signup and refresh_token served by two workers, interleaved   *)
(* at the statements that reach the store, next to login requests.         *)
(***************************************************************************)
Others == <<contacts, contact_seq, cache, now, ticks, today, redis_fault>>

\* signup up to the test of exist_user.
SignupCheck(w, email, password) ==
    LET exist_user == GetUserByEmail(email) IN
    /\ inflight[w] = Idle
    /\ IF AccountExists(exist_user)
       THEN /\ resp' = [NoResp EXCEPT !.op = "signup", !.status = 409,
                                      !.email = email, !.password = password,
                                      !.detail = "Account already exists"]
            /\ UNCHANGED inflight
       ELSE /\ inflight' = [inflight EXCEPT ![w] =
                               [Idle EXCEPT !.op = "signup", !.email = email,
                                            !.password = password]]
            /\ UNCHANGED resp
    /\ UNCHANGED <<users, user_seq, issued, returned, used, mailed>>
    /\ UNCHANGED Others

\* signup from create_user on: db.add, db.commit, the e-mail task.
SignupCreate(w) ==
    LET email == inflight[w].email
        password == inflight[w].password
    IN
    /\ inflight[w].op = "signup"
    /\ IF UserEmailTaken(email)
       THEN /\ resp' = [NoResp EXCEPT !.op = "signup", !.status = 500,
                                      !.email = email, !.password = password,
                                      !.detail = "IntegrityError"]
            /\ UNCHANGED <<users, user_seq, issued, mailed>>
       ELSE /\ users' = CreateUser(email, GetPasswordHash(password), user_seq + 1)
            /\ user_seq' = user_seq + 1
            /\ issued' = issued \cup {CreateEmailToken(email, now)}
            /\ mailed' = mailed \cup {SendEmail(email, now)}
            /\ resp' = [NoResp EXCEPT !.op = "signup", !.status = 201,
                                      !.email = email, !.password = password,
                                      !.user_id = user_seq + 1]
    /\ inflight' = [inflight EXCEPT ![w] = Idle]
    /\ UNCHANGED <<returned, used>>
    /\ UNCHANGED Others

\* refresh_token up to the comparison with the stored token; the mismatch
\* branch ends the request.
RefreshCompare(w, token) ==
    LET dec == DecodeRefreshToken(token, now)
        email == dec.email
        user == GetUserByEmail(email)
        fail(status, detail) == [NoResp EXCEPT !.op = "refresh_token", !.token = token,
                                               !.replay = token \in used,
                                               !.status = status, !.detail = detail]
    IN
    /\ inflight[w] = Idle
    /\ IF dec.status # 200
       THEN resp' = fail(dec.status, dec.detail) /\ UNCHANGED <<users, inflight>>
       ELSE IF user = NoUser
       THEN /\ resp' = fail(500, "AttributeError: 'NoneType' object has no attribute 'refresh_token'")
            /\ UNCHANGED <<users, inflight>>
       ELSE IF ~TokenMatches(user, token)
       THEN /\ users' = UpdateToken(user, NoToken)
            /\ resp' = [fail(401, "Invalid refresh token") EXCEPT !.user_id = user.id]
            /\ UNCHANGED inflight
       ELSE /\ inflight' = [inflight EXCEPT ![w] =
                               [Idle EXCEPT !.op = "refresh_token", !.token = token,
                                            !.user = user,
                                            !.first = token \notin used]]
            /\ UNCHANGED <<users, resp>>
    /\ UNCHANGED <<user_seq, issued, returned, used, mailed>>
    /\ UNCHANGED Others

\* refresh_token from the minting of the new pair on.
RefreshStore(w) ==
    LET token == inflight[w].token
        user == inflight[w].user
        access_token == CreateAccessToken(user.email, now)
        refresh_token == CreateRefreshToken(user.email, now)
    IN
    /\ inflight[w].op = "refresh_token"
    /\ MayMint(refresh_token)
    /\ users' = UpdateToken(user, refresh_token)
    /\ issued' = issued \cup {access_token, refresh_token}
    /\ returned' = [returned EXCEPT ![user.email] = refresh_token]
    /\ used' = used \cup {token}
    /\ resp' = [NoResp EXCEPT !.op = "refresh_token", !.token = token,
                              !.replay = token \in used,
                              !.status = 200, !.user_id = user.id,
                              !.access_token = access_token,
                              !.refresh_token = refresh_token]
    /\ inflight' = [inflight EXCEPT ![w] = Idle]
    /\ UNCHANGED <<user_seq, mailed>>
    /\ UNCHANGED Others

NextRace ==
    \/ \E w \in Workers, e \in UserEmails, p \in Passwords : SignupCheck(w, e, p)
    \/ \E w \in Workers : SignupCreate(w)
    \/ \E w \in Workers, t \in Presentable : RefreshCompare(w, t)
    \/ \E w \in Workers : RefreshStore(w)
    \/ \E e \in UserEmails, p \in Passwords : Login(e, p)
    \/ \E d \in {1} : Tick(d)

SpecRace == InitSession /\ [][NextRace]_vars

(***************************************************************************)
(* Claims about get_upcoming_birthdays, checked under SpecBirthdays.       *)
(***************************************************************************)
MonthDay(dt) == <<dt.m, dt.d>>

\* (month, day) of the dates t, t+1, ..., t+k
WindowDays(t, k) == {MonthDay(AddDays(t, i)) : i \in 0..k}

Queried == resp.op = "get_upcoming_birthdays"

\* The caller's contacts with a birthday.
OwnWithBirthday == {c \in contacts : c.user_id = resp.user_id /\ c.birthday # NoDate}

OwnOn(m, d) == {c \in OwnWithBirthday : MonthDay(c.birthday) = <<m, d>>}

\* C1 as stated: a caller-owned contact with a birthday is returned iff its
\* (month, day) is that of one of the 7 dates today .. today+6.
C1_SevenDayWindow ==
    Queried =>
        LET w == WindowDays(resp.today, 6) IN
        \A c \in OwnWithBirthday : c \in resp.contacts <=> MonthDay(c.birthday) \in w

\* C1 amended: a caller-owned contact with a birthday is returned iff its
\* (month, day) is that of one of the 8 dates today .. today+7, or it is
\* February 29 and today is February 22..28.
C1_EightDayWindow ==
    Queried =>
        LET w == WindowDays(resp.today, 7) IN
        \A c \in OwnWithBirthday :
            c \in resp.contacts <=>
                \/ MonthDay(c.birthday) \in w
                \/ /\ MonthDay(c.birthday) = <<2, 29>>
                   /\ resp.today.m = 2 /\ resp.today.d >= 22

\* C1 witness: a query whose window crosses a month returned the contact
\* born on the day of today+7 and left out the one born on the day of today+8.
C1_Witness ==
    /\ Queried
    /\ resp.today.m # AddDays(resp.today, 7).m
    /\ \E c \in resp.contacts : MonthDay(c.birthday) = MonthDay(AddDays(resp.today, 7))
    /\ \E c \in OwnWithBirthday \ resp.contacts :
           MonthDay(c.birthday) = MonthDay(AddDays(resp.today, 8))

May28 == [y |-> 2024, m |-> 5, d |-> 28]
Dec28 == [y |-> 2024, m |-> 12, d |-> 28]

\* C2 as stated: for today = 2024-05-28 the caller's contacts born 05-30 and
\* 06-03 are returned and those born 06-04 or 05-27 are not.
C2_MonthCrossing ==
    (Queried /\ resp.today = May28) =>
        /\ OwnOn(5, 30) \subseteq resp.contacts
        /\ OwnOn(6, 3) \subseteq resp.contacts
        /\ OwnOn(6, 4) \cap resp.contacts = {}
        /\ OwnOn(5, 27) \cap resp.contacts = {}

\* C2 amended: for today = 2024-05-28 the caller's contacts born 05-30, 06-03
\* and 06-04 are returned and those born 05-27 or 06-05 are not.
C2_MonthCrossingEight ==
    (Queried /\ resp.today = May28) =>
        /\ OwnOn(5, 30) \subseteq resp.contacts
        /\ OwnOn(6, 3) \subseteq resp.contacts
        /\ OwnOn(6, 4) \subseteq resp.contacts
        /\ OwnOn(5, 27) \cap resp.contacts = {}
        /\ OwnOn(6, 5) \cap resp.contacts = {}

\* C2 witness: the query ran on 2024-05-28 with contacts born 06-04 returned.
C2_Witness ==
    /\ Queried /\ resp.today = May28
    /\ OwnOn(6, 4) # {} /\ OwnOn(6, 4) \subseteq resp.contacts
    /\ OwnOn(5, 27) # {}

\* C3 as stated: for today = 2024-12-28 the caller's contacts born 12-30 and
\* 01-02 are returned and those born 01-04 are not.
C3_YearCrossing ==
    (Queried /\ resp.today = Dec28) =>
        /\ OwnOn(12, 30) \subseteq resp.contacts
        /\ OwnOn(1, 2) \subseteq resp.contacts
        /\ OwnOn(1, 4) \cap resp.contacts = {}

\* C3 amended: for today = 2024-12-28 the caller's contacts born 12-30, 01-02
\* and 01-04 are returned and those born 01-05 or 12-27 are not (December and
\* January are matched by month equality).
C3_YearCrossingEight ==
    (Queried /\ resp.today = Dec28) =>
        /\ OwnOn(12, 30) \subseteq resp.contacts
        /\ OwnOn(1, 2) \subseteq resp.contacts
        /\ OwnOn(1, 4) \subseteq resp.contacts
        /\ OwnOn(1, 5) \cap resp.contacts = {}
        /\ OwnOn(12, 27) \cap resp.contacts = {}

\* C3 witness: the query ran on 2024-12-28 and returned contacts of both
\* December and January.
C3_Witness ==
    /\ Queried /\ resp.today = Dec28
    /\ OwnOn(12, 30) # {} /\ OwnOn(1, 4) # {}
    /\ \E c \in resp.contacts : c.birthday.m = 12
    /\ \E c \in resp.contacts : c.birthday.m = 1

\* C4: for today = 2024-05-28 every caller-owned contact born on the
\* (month, day) of today+1 .. today+7 (05-29 .. 06-04) is returned.
C4_TestWithinWeek ==
    (Queried /\ resp.today = May28) =>
        \A i \in 1..7 :
            \A c \in OwnWithBirthday :
                MonthDay(c.birthday) = MonthDay(AddDays(May28, i)) => c \in resp.contacts

\* C4 witness: the query ran on 2024-05-28 and returned, for each of the seven
\* days 05-29 .. 06-04, a contact born on it.
C4_Witness ==
    /\ Queried /\ resp.today = May28
    /\ \A md \in {<<5, 29>>, <<5, 30>>, <<5, 31>>, <<6, 1>>, <<6, 2>>, <<6, 3>>, <<6, 4>>} :
           \E c \in resp.contacts : MonthDay(c.birthday) = md

\* C5: of two contacts of one owner born on the same month and day in
\* different years, the query returns both or neither.
C5_BirthYearIrrelevant ==
    Queried =>
        \A c1 \in contacts, c2 \in resp.contacts :
            (/\ c1.user_id = c2.user_id
             /\ c1.birthday # NoDate
             /\ MonthDay(c1.birthday) = MonthDay(c2.birthday)
             /\ c1.birthday.y # c2.birthday.y) => c1 \in resp.contacts

\* C5 witness: two contacts born on the same day of different years were
\* returned together, and two such contacts were left out together.
C5_Witness ==
    /\ Queried
    /\ \E c1, c2 \in resp.contacts :
           MonthDay(c1.birthday) = MonthDay(c2.birthday) /\ c1.birthday.y # c2.birthday.y
    /\ \E c1, c2 \in OwnWithBirthday \ resp.contacts :
           MonthDay(c1.birthday) = MonthDay(c2.birthday) /\ c1.birthday.y # c2.birthday.y

(***************************************************************************)
(* Claims about the contact routes, checked under SpecContacts.            *)
(***************************************************************************)
\* A step that serves a request (the other steps are those of the clock and
\* of the Redis server).
RequestStep == ticks' = ticks /\ redis_fault' = redis_fault

ContactsOfOthers(rows, user_id) == {c \in rows : c.user_id # user_id}

\* C6: get_contact, update_contact and remove_contact called by P with the
\* id of a contact of another principal answer 404 'Contact not found' and
\* change no contact; no request of P changes a contact of another principal;
\* get_contacts and get_upcoming_birthdays return only contacts owned by P.
C6_OwnershipIsolation ==
    [][(RequestStep /\ resp'.user_id # 0) =>
          /\ \A c \in contacts :
                 (/\ resp'.op \in {"read_contact", "update_contact", "remove_contact"}
                  /\ resp'.contact_id = c.id
                  /\ c.user_id # resp'.user_id)
                 => /\ resp'.status = 404
                    /\ resp'.detail = "Contact not found"
                    /\ resp'.contacts = {}
                    /\ contacts' = contacts
          /\ ContactsOfOthers(contacts', resp'.user_id)
                 = ContactsOfOthers(contacts, resp'.user_id)
          /\ resp'.op \in {"read_contacts", "get_upcoming_birthdays"}
                 => \A c \in resp'.contacts : c.user_id = resp'.user_id]_vars

\* C6 witness: P asked to update a contact that exists and belongs to another
\* principal, and was answered 404.
C6_Witness ==
    /\ resp.op = "update_contact" /\ resp.status = 404
    /\ \E c \in contacts : c.id = resp.contact_id /\ c.user_id # resp.user_id
    /\ \E c \in contacts : c.user_id = resp.user_id

(***************************************************************************)
(* Claims about the refresh token: C7 to C9 are checked under Spec, C10    *)
(* under SpecContacts.                                                     *)
(***************************************************************************)
Stored(email) == GetUserByEmail(email).refresh_token

Refreshed == resp.op = "refresh_token"

\* C7: once refresh_token(T) has succeeded, a later refresh_token(T) with the
\* same token is answered 401 and leaves the stored refresh token empty.
C7_RefreshRotation ==
    (Refreshed /\ resp.replay) =>
        /\ resp.status = 401
        /\ Stored(resp.token.sub) = NoToken

\* A 200 refresh was served from a stored token equal to the presented one.
RefreshOnlyOnMatch ==
    (RequestStep /\ resp'.op = "refresh_token" /\ resp'.status = 200)
        => Stored(resp'.token.sub) = resp'.token

\* A 200 login or refresh stores the refresh token it returns.
StoresWhatItReturns ==
    (RequestStep /\ resp'.op \in {"login", "refresh_token"} /\ resp'.status = 200)
        => /\ resp'.refresh_token # NoToken
           /\ \E u \in users' : u.id = resp'.user_id
                                /\ u.refresh_token = resp'.refresh_token
                                /\ returned'[u.email] = resp'.refresh_token

\* C8 as stated: every principal's stored refresh token is the one returned
\* by its last successful login or refresh, and a refresh succeeds only on a
\* presented token equal to the stored one.
C8_SingleActiveToken ==
    /\ [](\A u \in users : u.refresh_token = returned[u.email])
    /\ [][RefreshOnlyOnMatch]_vars

\* C8 amended: every principal's stored refresh token is empty or the one
\* returned by its last successful login or refresh, which stores it; and a
\* refresh succeeds only on a presented token equal to the stored one.
C8_SingleActiveOrEmpty ==
    /\ [](\A u \in users : u.refresh_token \in {NoToken, returned[u.email]})
    /\ [][StoresWhatItReturns]_vars
    /\ [][RefreshOnlyOnMatch]_vars

\* C8 witness: a principal holds the token of its second mint, after a
\* refresh that presented the first.
C8_Witness ==
    /\ Refreshed /\ resp.status = 200
    /\ resp.token # resp.refresh_token
    /\ Stored(resp.token.sub) = resp.refresh_token
    /\ returned[resp.token.sub] = resp.refresh_token

\* The presented token is a signed, unexpired refresh token of a principal.
ValidRefresh(token) ==
    /\ JwtValid(token, now)
    /\ token.scope = "refresh_token"
    /\ GetUserByEmail(token.sub) # NoUser

\* C9: a valid refresh token that differs from the stored one is answered 401
\* and empties the stored token; while the stored token is empty every refresh
\* for that principal is rejected and only a successful login fills it again.
C9_MismatchRevocation ==
    [][RequestStep =>
          /\ (/\ resp'.op = "refresh_token"
              /\ ValidRefresh(resp'.token)
              /\ Stored(resp'.token.sub) # resp'.token)
             => /\ resp'.status = 401
                /\ \A v \in users' : v.email = resp'.token.sub => v.refresh_token = NoToken
          /\ \A u \in users :
                u.refresh_token = NoToken =>
                    /\ (resp'.op = "refresh_token" /\ resp'.token.sub = u.email)
                           => resp'.status # 200
                    /\ (\E v \in users' : v.id = u.id /\ v.refresh_token # NoToken)
                           => (resp'.op = "login" /\ resp'.status = 200
                               /\ resp'.user_id = u.id)]_vars

\* C9 witness: after a revocation the principal presented the last refresh
\* token it was given and was answered 401.
C9_Witness ==
    /\ Refreshed /\ resp.status = 401 /\ resp.detail = "Invalid refresh token"
    /\ resp.token = returned[resp.token.sub]
    /\ ~resp.replay
    /\ Stored(resp.token.sub) = NoToken

\* The operations that depend on get_current_user.
GuardedOps == {"read_users_me", "read_contacts", "read_contact", "create_contact",
               "update_contact", "remove_contact", "get_upcoming_birthdays"}

\* C10: every operation behind get_current_user answers 401 to a signed,
\* unexpired refresh token, and the refresh endpoint answers 401 to a signed,
\* unexpired access token; neither changes a user row, a contact or the cache.
C10_ScopeEnforcement ==
    [][(/\ RequestStep
        /\ JwtValid(resp'.token, now)
        /\ \/ resp'.op \in GuardedOps /\ resp'.token.scope = "refresh_token"
           \/ resp'.op = "refresh_token" /\ resp'.token.scope = "access_token")
       => /\ resp'.status = 401
          /\ users' = users
          /\ contacts' = contacts
          /\ cache' = cache]_vars

\* C10 witness: with a snapshot cached, a contact stored and a refresh token
\* stored, the principal's refresh token was presented to get_current_user
\* and answered 401.
C10_Witness ==
    /\ resp.op \in GuardedOps /\ resp.status = 401
    /\ resp.token.scope = "refresh_token" /\ JwtValid(resp.token, now)
    /\ Stored(resp.token.sub) = resp.token
    /\ cache[resp.token.sub].present
    /\ \E c \in contacts : c.user_id = GetUserByEmail(resp.token.sub).id

(***************************************************************************)
(* Claims about token decoding, checked under SpecSession.                 *)
(***************************************************************************)
\* C11 as stated: a signed, unexpired token without a scope claim (an e-mail
\* token) presented to get_current_user or to the refresh endpoint is
\* answered 401.
C11_MissingScopeUnauthenticated ==
    (/\ resp.op \in GuardedOps \cup {"refresh_token"}
     /\ JwtValid(resp.token, now)
     /\ resp.token.scope = "")
        => resp.status = 401

(***************************************************************************)
(* Claims about signup and login, checked under SpecRace.                  *)
(***************************************************************************)
\* The detail of a refused login, by the state of the principal.
LoginRefusal(user) ==
    IF user = NoUser THEN "Invalid email"
    ELSE IF ~user.confirmed THEN "Email not confirmed"
    ELSE "Invalid password"

\* C12: login answers 200 with tokens iff the principal exists, is confirmed
\* and the password verifies; otherwise it answers 401 with the detail of
\* the first failed test, mints nothing and changes no user row.
C12_LoginGating ==
    [][(RequestStep /\ resp'.op = "login") =>
          LET user == GetUserByEmail(resp'.email)
              ok == /\ user # NoUser
                    /\ user.confirmed
                    /\ VerifyPassword(resp'.password, user.password)
          IN  /\ resp'.status = 200 <=> ok
              /\ ok => /\ resp'.access_token # NoToken
                       /\ resp'.refresh_token # NoToken
              /\ ~ok => /\ resp'.status = 401
                        /\ resp'.detail = LoginRefusal(user)
                        /\ resp'.access_token = NoToken
                        /\ resp'.refresh_token = NoToken
                        /\ issued' = issued
                        /\ users' = users]_vars

\* C12 witness: an unconfirmed principal presented its correct password and
\* was refused; a confirmed one holds tokens.
C12_Witness ==
    /\ resp.op = "login" /\ resp.status = 401
    /\ resp.detail = "Email not confirmed"
    /\ VerifyPassword(resp.password, GetUserByEmail(resp.email).password)
    /\ \E u \in users : u.confirmed /\ u.refresh_token # NoToken

(***************************************************************************)
(* Claims about concurrent requests, checked under SpecRace.               *)
(***************************************************************************)
\* C13: no two rows of the users table have the same e-mail, whatever the
\* interleaving of the signup requests.
C13_OnePrincipalPerEmail ==
    \A u \in users : \A v \in users : u.email = v.email => u = v

\* C13 witness: two signups for one e-mail both passed the exist_user test;
\* the first was created, the second failed at the unique index.
C13_Witness ==
    /\ resp.op = "signup" /\ resp.status = 500
    /\ \E u \in users : u.email = resp.email /\ u.email = "b@x"

\* C14: a signup for an e-mail that already has a principal is answered 409
\* 'Account already exists' in the step that receives it, goes no further,
\* and changes no user row, no sequence and no issued e-mail token.
C14_SignupConflict ==
    [][/\ (/\ resp'.op = "signup" /\ resp' # resp /\ inflight' = inflight
           /\ GetUserByEmail(resp'.email) # NoUser)
          => /\ resp'.status = 409
             /\ resp'.detail = "Account already exists"
             /\ users' = users
             /\ user_seq' = user_seq
             /\ issued' = issued
       /\ \A w \in Workers :
             (inflight[w] = Idle /\ inflight'[w].op = "signup")
                => GetUserByEmail(inflight'[w].email) = NoUser]_vars

\* C14 witness: a confirmed, logged-in principal; a signup for its e-mail
\* with another password was answered 409.
C14_Witness ==
    /\ resp.op = "signup" /\ resp.status = 409
    /\ \E u \in users : /\ u.email = resp.email
                         /\ u.confirmed /\ u.refresh_token # NoToken
                         /\ ~VerifyPassword(resp.password, u.password)

(***************************************************************************)
(* Claims about expiry and the cache, checked under SpecSession.           *)
(***************************************************************************)
\* The request presented a signed token of the scope its endpoint consumes.
OwnScope(r) ==
    /\ r.token.sig
    /\ \/ r.op = "read_users_me" /\ r.token.scope = "access_token"
       \/ r.op = "refresh_token" /\ r.token.scope = "refresh_token"

NoStateChange ==
    /\ users' = users /\ cache' = cache /\ issued' = issued
    /\ returned' = returned /\ used' = used

\* C15 as stated: a token of the right scope presented at a time >= its exp
\* (issue time + default ttl) is answered 401 and changes no state.
C15_ExpiryAtTTL ==
    [][(RequestStep /\ resp' # resp /\ redis_fault = "" /\ OwnScope(resp')
        /\ now >= resp'.token.exp)
          => (resp'.status = 401 /\ NoStateChange)]_vars

\* C15 amended: presented at a time > exp the token is answered 401 and
\* changes no state, even when it equals the stored refresh token; presented
\* in the second exp itself it is not rejected as expired.
C15_ExpiryAfterTTL ==
    [][(RequestStep /\ resp' # resp /\ OwnScope(resp')) =>
          /\ now > resp'.token.exp => (resp'.status = 401 /\ NoStateChange)
          /\ (now = resp'.token.exp /\ redis_fault = "")
                => (resp'.status = 200
                    \/ (resp'.op = "refresh_token"
                        /\ resp'.detail = "Invalid refresh token"))]_vars

\* C15 witness: the stored refresh token was presented one second after its
\* exp and answered 401; it is still the stored one.
C15_Witness ==
    /\ resp.op = "refresh_token" /\ resp.status = 401
    /\ resp.token.scope = "refresh_token" /\ resp.token.sig
    /\ now = resp.token.exp + 1
    /\ Stored(resp.token.sub) = resp.token

(***************************************************************************)
(* Claim about concurrent refreshes, checked under SpecRace.               *)
(***************************************************************************)
\* Worker w stores the new token of a refresh that compared its token before
\* any refresh with that token had been served, while the last response is
\* the 200 of the other worker's refresh with the same token: the two
\* requests were interleaved, and w writes last.
RaceStore(w) ==
    /\ inflight[w].op = "refresh_token" /\ inflight'[w] = Idle
    /\ inflight[w].first /\ inflight[w].token \in used
    /\ resp.op = "refresh_token" /\ resp.status = 200
    /\ resp.token = inflight[w].token

\* C16 as stated: after two interleaved refreshes with the stored token, the
\* stored token is the one written last and differs from the token returned
\* to the other request, whose next use is therefore answered 401.
C16_RefreshRace ==
    [][\A w \in Workers :
          RaceStore(w) =>
              /\ \A v \in users' : v.id = inflight[w].user.id
                                      => v.refresh_token = resp'.refresh_token
              /\ resp.refresh_token # resp'.refresh_token]_vars

(***************************************************************************)
(* Claim about a failing cache, checked under SpecSession.                 *)
(***************************************************************************)
\* C17 as stated: while a Redis command raises, get_current_user with a
\* signed, unexpired access token of an existing principal still answers 200
\* with that principal.
C17_CacheFailureIsMiss ==
    [][(/\ RequestStep /\ resp' # resp
        /\ resp'.op = "read_users_me"
        /\ redis_fault \in RedisCommands
        /\ JwtValid(resp'.token, now)
        /\ resp'.token.scope = "access_token"
        /\ GetUserByEmail(resp'.token.sub) # NoUser)
          => /\ resp'.status = 200
             /\ resp'.user_id = GetUserByEmail(resp'.token.sub).id]_vars

(***************************************************************************)
(* Claims about the contact store, checked under SpecUnique.               *)
(***************************************************************************)
\* The caller's contacts with the given id, before the step.
OwnWithId(user_id, contact_id) ==
    {c \in contacts : c.id = contact_id /\ c.user_id = user_id}

\* C18: remove_contact by an authenticated caller with an id under which it
\* owns no contact (deleted before, or never created) answers 404 'Contact
\* not found' and leaves the table unchanged, every time; with the id of an
\* own contact it answers 200 with that contact and removes that row only.
C18_DeleteIdempotence ==
    [][(RequestStep /\ resp'.op = "remove_contact" /\ resp'.user_id # 0) =>
          LET own == OwnWithId(resp'.user_id, resp'.contact_id) IN
          /\ own = {} => /\ resp'.status = 404
                         /\ resp'.detail = "Contact not found"
                         /\ resp'.contacts = {}
                         /\ contacts' = contacts
          /\ own # {} => /\ resp'.status = 200
                         /\ resp'.contacts = own
                         /\ contacts' = contacts \ own
                         /\ Cardinality(contacts') = Cardinality(contacts) - 1]_vars

\* C18 witness: the id of a deleted contact was asked to be deleted again and
\* answered 404, while the caller still owns another contact.
C18_Witness ==
    /\ resp.op = "remove_contact" /\ resp.status = 404
    /\ resp.contact_id \in 1..contact_seq
    /\ \A c \in contacts : c.id # resp.contact_id
    /\ \E c \in contacts : c.user_id = resp.user_id

\* C19: update_contact on an existing own contact sets exactly the fields that
\* are set in the request body to the given values and leaves every other
\* field of that contact, its owner, and every other contact unchanged; with
\* an empty body it leaves all fields unchanged. (updated_at is not a field of
\* the modelled row, so nothing is required of it.)
C19_PartialUpdateFrame ==
    [][(RequestStep /\ resp'.op = "update_contact" /\ resp'.user_id # 0
          /\ OwnWithId(resp'.user_id, resp'.contact_id) # {}) =>
          \E old \in OwnWithId(resp'.user_id, resp'.contact_id), new \in contacts' :
              LET body == resp'.body IN
              /\ contacts' = (contacts \ {old}) \cup {new}
              /\ new.id = old.id /\ new.user_id = old.user_id
              /\ new.first_name = IF "first_name" \in body.set
                                  THEN body.first_name ELSE old.first_name
              /\ new.email = IF "email" \in body.set
                             THEN body.email ELSE old.email
              /\ new.birthday = IF "birthday" \in body.set
                                THEN body.birthday ELSE old.birthday
              /\ (body.set = {} => new = old)]_vars

(***************************************************************************)
(* Claims about contacts without a birthday, checked under SpecBirthdays.  *)
(***************************************************************************)
\* C20: whatever `today` is, get_upcoming_birthdays answers without an error
\* and returns no contact whose birthday is NULL.
C20_NullBirthdayExcluded ==
    Queried =>
        /\ resp.status = 200
        /\ \A c \in resp.contacts : c.birthday # NoDate
        /\ \A c \in contacts : c.birthday = NoDate => c \notin resp.contacts

\* C20 witness: the caller owns a contact without a birthday, and the query
\* returned other contacts of the caller but not that one.
C20_Witness ==
    /\ Queried /\ resp.status = 200 /\ resp.contacts # {}
    /\ \E c \in contacts :
           c.user_id = resp.user_id /\ c.birthday = NoDate /\ c \notin resp.contacts

(***************************************************************************)
(* Claims about the mailed tokens, checked under SpecMail.                 *)
(***************************************************************************)
\* The tokens that were mailed with the given template.
MailedAs(template) == {mail.token : mail \in {x \in mailed : x.template = template}}

\* C21: confirm_email and reset_password accept every signed, unexpired
\* token of an existing principal, whatever it was minted for (confirmation
\* mail, reset mail, access or refresh token): confirm_email confirms the
\* principal of the token's sub and reset_password sets its password; any
\* other token is refused with 422 and changes no user row.
C21_EmailTokenPurpose ==
    [][(RequestStep /\ resp'.op \in {"confirm_email", "reset_password"}) =>
          LET token == resp'.token
              accepted == token.sig /\ token.exp >= now
              user == GetUserByEmail(token.sub)
              after == CHOOSE u \in users' : u.id = user.id
          IN  /\ ~accepted => resp'.status = 422 /\ users' = users
              /\ (accepted /\ user # NoUser) =>
                    /\ resp'.status = 200
                    /\ resp'.op = "confirm_email" =>
                          /\ after.confirmed
                          /\ users' = (users \ {user}) \cup {[user EXCEPT !.confirmed = TRUE]}
                    /\ resp'.op = "reset_password" =>
                          /\ VerifyPassword(resp'.password, after.password)
                          /\ users' = (users \ {user}) \cup
                                {[user EXCEPT !.password = GetPasswordHash(resp'.password)]}]_vars

\* C21 witness: b@x has just been confirmed with a token that was mailed for
\* a password reset only, and the password of a@x has been reset although no
\* reset message was ever mailed to a@x.
C21_Witness ==
    /\ resp.op = "confirm_email" /\ resp.detail = "Email confirmed"
    /\ resp.token.sub = "b@x"
    /\ resp.token \in MailedAs("reset_password_email.html")
    /\ resp.token \notin MailedAs("email_template.html")
    /\ GetUserByEmail("b@x").confirmed
    /\ VerifyPassword("pw2", GetUserByEmail("a@x").password)
    /\ \A t \in MailedAs("reset_password_email.html") : t.sub # "a@x"

(***************************************************************************)
(* Claims about principals that are gone, checked under SpecOrphan.        *)
(***************************************************************************)
\* A signed, unexpired token of the given scope.
LiveToken(token, scope) == token.sig /\ token.exp >= now /\ token.scope = scope

\* C22: get_current_user with a valid access token for e-mail e returns the
\* cached snapshot and leaves the cache alone when key user:<e> is held;
\* otherwise it reads the store and, when the principal exists, caches the
\* row for 900 seconds and returns it, and when it does not, answers 401
\* and writes nothing to the cache.
C22_ReadThroughCache ==
    [][(RequestStep /\ resp' # resp /\ resp'.op = "read_users_me" /\ redis_fault = ""
          /\ LiveToken(resp'.token, "access_token")) =>
          LET e == resp'.token.sub
              held == cache[e].present
                      /\ (cache[e].expire_at = NoExpiry \/ cache[e].expire_at > now)
              row == {u \in users : u.email = e}
          IN  /\ held => /\ resp'.status = 200
                         /\ resp'.user = cache[e].user
                         /\ cache' = cache
              /\ (~held /\ row # {}) =>
                    /\ resp'.status = 200
                    /\ {resp'.user} = row
                    /\ cache'[e].present /\ {cache'[e].user} = row
                    /\ cache'[e].expire_at = now + 900
                    /\ \A o \in UserEmails \ {e} : cache'[o] = cache[o]
              /\ (~held /\ row = {}) =>
                    /\ resp'.status = 401
                    /\ cache' = cache]_vars

\* C22 witness: the snapshot of a principal was returned from the cache
\* after its row had left the store.
C22_Witness ==
    /\ resp.op = "read_users_me" /\ resp.status = 200
    /\ resp.user.email = resp.token.sub
    /\ \A u \in users : u.email # resp.token.sub

\* C24: /refresh_token with a signed, unexpired refresh-scope token whose
\* subject has no row in the store answers 401, mints nothing and changes
\* no state.
C24_RefreshUnknownPrincipal ==
    [][(RequestStep /\ resp' # resp /\ resp'.op = "refresh_token"
          /\ LiveToken(resp'.token, "refresh_token")
          /\ \A u \in users : u.email # resp'.token.sub) =>
          /\ resp'.status = 401
          /\ resp'.access_token = NoToken /\ resp'.refresh_token = NoToken
          /\ UNCHANGED <<users, issued, cache, returned, used>>]_vars

(***************************************************************************)
(* Claims about the user rows, checked under SpecAccount.                  *)
(***************************************************************************)
\* C23: the stored refresh token of a principal changes only in a login or
\* refresh request, and it becomes empty only in the refresh request that
\* answers 401 'Invalid refresh token'; signup, confirm_email,
\* request_email, password_reset_request, reset_password, update_avatar,
\* get_current_user and the contact routes leave it as it is.
C23_RefreshTokenFrame ==
    [][\A u \in users : \A v \in users' :
          (v.id = u.id /\ v.refresh_token # u.refresh_token) =>
              /\ resp'.op \in {"login", "refresh_token"}
              /\ v.refresh_token = NoToken =>
                    /\ resp'.op = "refresh_token"
                    /\ resp'.status = 401
                    /\ resp'.detail = "Invalid refresh token"]_vars

\* C23 witness: a@x has just reset its password, another user has signed
\* up, the avatar of a@x was replaced, and the refresh token that a@x was
\* last handed is still the stored one.
C23_Witness ==
    LET a == GetUserByEmail("a@x") IN
    /\ resp.op = "reset_password" /\ resp.status = 200 /\ resp.user_id = a.id
    /\ VerifyPassword("pw2", a.password)
    /\ a.avatar \in AvatarUrls
    /\ GetUserByEmail("b@x") # NoUser
    /\ a.refresh_token # NoToken /\ a.refresh_token = returned["a@x"]

(***************************************************************************)
(* Claims about the token strings, checked under SpecSession.              *)
(***************************************************************************)
\* C25: a refresh request accepted in the second in which the presented
\* token was issued mints, stores and returns a token equal to the presented
\* one, so the presented token is still the stored one afterwards.
C25_SameSecondTokens ==
    [][(RequestStep /\ resp' # resp /\ resp'.op = "refresh_token"
          /\ resp'.status = 200 /\ resp'.token.iat = now) =>
          /\ resp'.refresh_token = resp'.token
          /\ \A u \in users' :
                u.email = resp'.token.sub => u.refresh_token = resp'.token
          /\ returned'[resp'.token.sub] = resp'.token]_vars

\* C25 witness: a refresh token that a refresh request had already accepted
\* was accepted again and came back unchanged.
C25_Witness ==
    /\ resp.op = "refresh_token" /\ resp.status = 200
    /\ resp.replay
    /\ resp.refresh_token = resp.token
    /\ resp.token.iat = now

(***************************************************************************)
(* Claims about February 29, checked under SpecBirthdays.                  *)
(***************************************************************************)
\* C26: a contact of the caller born on February 29 is returned exactly
\* when today is in February, on the 22nd or later, in leap years and in
\* other years alike.
C26_LeapDayPolicy ==
    Queried =>
        \A c \in contacts :
            (c.user_id = resp.user_id /\ c.birthday # NoDate
             /\ MonthDay(c.birthday) = <<2, 29>>) =>
                (c \in resp.contacts <=> (resp.today.m = 2 /\ resp.today.d >= 22))

\* C26 witness: in a year without a February 29 the query ran on February
\* 22 and returned a contact born on February 29, which is no date of the
\* eight days from today.
C26_Witness ==
    /\ Queried /\ ~IsLeap(resp.today.y)
    /\ resp.today.m = 2 /\ resp.today.d = 22
    /\ \E c \in resp.contacts : MonthDay(c.birthday) = <<2, 29>>
    /\ \A i \in 0..7 : MonthDay(AddDays(resp.today, i)) # <<2, 29>>

(***************************************************************************)
(* Claims about stale snapshots, checked under SpecStale.                  *)
(***************************************************************************)
\* Key user:<e> is held: set and not yet expired.
Held(e) == cache[e].present
           /\ (cache[e].expire_at = NoExpiry \/ cache[e].expire_at > now)

\* C27: login, refresh_token, confirm_email and reset_password leave the
\* cache as it is; update_avatar_user leaves a held entry as it is and
\* otherwise caches the row it found before the write; a held entry is
\* what get_current_user returns, whatever the store says; and an entry
\* changes only by leaving the cache at its expiry or by being set from the
\* store while no entry is held.
C27_WritesBypassCache ==
    [][/\ (RequestStep /\ resp' # resp
            /\ resp'.op \in {"login", "refresh_token", "confirm_email", "reset_password"})
              => cache' = cache
       /\ (RequestStep /\ resp' # resp /\ resp'.op = "update_avatar_user"
            /\ LiveToken(resp'.token, "access_token") /\ Held(resp'.token.sub))
              => /\ cache' = cache
                 /\ resp'.user_id = cache[resp'.token.sub].user.id
       /\ (RequestStep /\ resp' # resp /\ resp'.op = "read_users_me"
            /\ LiveToken(resp'.token, "access_token") /\ Held(resp'.token.sub))
              => /\ cache' = cache
                 /\ resp'.user = cache[resp'.token.sub].user
       /\ \A e \in UserEmails :
              cache'[e] # cache[e] =>
                  \/ /\ ticks' # ticks
                     /\ cache'[e] = NoEntry
                     /\ cache[e].expire_at <= now'
                  \/ /\ ~Held(e)
                     /\ resp'.op \in {"read_users_me", "update_avatar_user"}
                     /\ cache'[e].present
                     /\ cache'[e].user \in users
                     /\ cache'[e].expire_at = now + CacheTTL]_vars

\* C27 witness: /users/me has just answered with the avatar and the refresh
\* token that a@x had when the entry was set, after update_avatar_user had
\* stored a new avatar and a login had stored a new refresh token.
C27_Witness ==
    LET a == GetUserByEmail("a@x") IN
    /\ resp.op = "read_users_me" /\ resp.status = 200
    /\ resp.user.email = "a@x"
    /\ resp.user.avatar = "gravatar" /\ a.avatar \in AvatarUrls
    /\ resp.user.refresh_token # a.refresh_token
    /\ resp.user = cache["a@x"].user

(***************************************************************************)
(* Claim about the expiry of cache entries, checked under SpecSession.     *)
(***************************************************************************)
\* C28 as stated: in every reachable state every key user:<e> that is set
\* has an expiry, and the expiry is at most 900 seconds ahead.
C28_EveryEntryExpires ==
    \A e \in UserEmails :
        cache[e].present =>
            /\ cache[e].expire_at # NoExpiry
            /\ cache[e].expire_at - now <= CacheTTL

(***************************************************************************)
(* Claim about access tokens and the stored refresh token, checked under   *)
(* SpecStale.                                                              *)
(***************************************************************************)
\* C29: a request that passes get_current_user with a signed, unexpired
\* access token of a principal is answered 200 for that principal, whatever
\* refresh token the principal's row holds at that time (the one issued
\* with the access token, a later one, or none).
C29_AccessTokenOutlivesRefresh ==
    [][(RequestStep /\ resp' # resp
        /\ resp'.op \in {"read_users_me", "update_avatar_user"}
        /\ LiveToken(resp'.token, "access_token")
        /\ resp'.detail # "Failed to update avatar")
          => /\ resp'.status = 200
             /\ resp'.user.email = resp'.token.sub]_vars

\* C29 witness: /users/me has answered 200 to an access token of a@x that
\* a refresh issued, while the row of a@x holds no refresh token because a
\* mismatching refresh token was presented afterwards.
C29_Witness ==
    /\ resp.op = "read_users_me" /\ resp.status = 200
    /\ resp.token.sub = "a@x" /\ resp.token.scope = "access_token"
    /\ resp.token.iat > 0
    /\ GetUserByEmail("a@x").refresh_token = NoToken

(***************************************************************************)
(* Claim about the unique index on contacts.email, checked under           *)
(* SpecUnique.                                                             *)
(***************************************************************************)
UniqueEmails ==
    \A c, o \in contacts : (c.email # NoEmail /\ c.email = o.email) => c = o

\* C30: no two contacts have the same e-mail, whoever owns them; a
\* create_contact of an authenticated caller with an e-mail that some contact
\* holds, the caller's or another principal's, answers 400 and changes no
\* row and no id, and with an e-mail that no contact holds it answers 201
\* and adds exactly the caller's new row.
C30_EmailUniqueAcrossOwners ==
    [][/\ UniqueEmails'
       /\ \A t \in Owners, e \in ContactEmails, b \in Birthdays :
             CreateContact(t, "n1", e, b) =>
                 IF \E c \in contacts : c.email = e
                 THEN /\ resp'.status = 400
                      /\ resp'.detail = "Failed to create contact"
                      /\ contacts' = contacts
                      /\ contact_seq' = contact_seq
                 ELSE /\ resp'.status = 201
                      /\ \E c \in contacts' \ contacts :
                            /\ contacts' = contacts \cup {c}
                            /\ c.email = e
                            /\ c.user_id = GetUserByEmail(t.sub).id]_vars

\* C30 witness: create_contact of one principal has answered 400 while
\* every contact in the table belongs to the other principal.
C30_Witness ==
    /\ resp.op = "create_contact" /\ resp.status = 400
    /\ resp.user_id # 0
    /\ contacts # {}
    /\ \A c \in contacts : c.user_id # resp.user_id

====
